---- MODULE Spec2Model ----
(***************************************************************************)
(* Model of the transaction submission and nonce coordination engine of    *)
(* MONv2 (src/transaction.js, class TransactionManager).                   *)
(*                                                                         *)
(* A "chain" is one asynchronous caller of the TransactionManager (an      *)
(* activation of sendMonadMintTx): it awaits getNonce, then awaits         *)
(* sendTransaction.  Node.js runs every stretch of code between two awaits *)
(* atomically, so each action below is one such stretch.  The RPC node,    *)
(* the timer and the file system are the environment: their replies are    *)
(* nondeterministic choices.                                               *)
(***************************************************************************)
EXTENDS Integers, Sequences, FiniteSets, TLC

\* ---------------------------------------------------------------- bounds
NumChains  == 2     \* concurrent callers of the TransactionManager
MaxCalls   == 2     \* getNonce calls made in one behaviour of Spec
NumCallers == 3     \* concurrent getNonce calls in SpecAlloc
MaxChain   == 2     \* largest on-chain count SpecAlloc starts from

\* this.maxHistoryItems, the cap of the history, is 100 in the program; the
\* constructor of the model sets it to a scaled-down value so that the
\* eviction branch of sendTransaction is exercised
HistoryCap == 1     \* the cap in the specifications of the whole manager
StoreCap    == 3    \* the cap in the specification of the History Store
MaxRestarts == 1    \* restarts of the process in one behaviour

Addresses == {"0xa", "0xb"}

\* config.js line 15: the contract added and activated at startup
\* (part_000 lines 28-29), and the saved contracts /contuse can name
CONTRACT_ADDRESS == "0xc1"
Contracts == {CONTRACT_ADDRESS, "0xc2", "0xc3"}

\* saved_contracts.json as the startup leaves it
DefaultContracts == <<[address |-> CONTRACT_ADDRESS, active |-> TRUE]>>

\* ------------------------------------------------------- error messages
\* A message is the sequence of its words; includes() is a word search.
TimeoutMessage == <<"Transaction", "timeout">>
NonceTooLow    == <<"nonce", "too", "low">>
NonceUsed      == <<"nonce", "already", "used">>
Underpriced    == <<"replacement", "transaction", "underpriced">>
ConnectionLost == <<"connection", "error">>
SupplyReached  == <<"execution", "reverted:", "Maximum supply", "reached">>
MethodMissing  == <<"Mint method", "not found in contract", "Verify">>
NotAFunction   == <<"activeContract.methods.mint", "is not a function">>
NoMessage      == <<>>
\* thrown by sendMonadMintTx itself before it calls the chain
WalletInactive == <<"Wallet", "not found or inactive">>
NoContract     == <<"No active contract configured">>
\* thrown by writeFileSync
WriteFailed    == <<"ENOSPC:", "no space left on device,", "write">>

\* what web3.eth.sendSignedTransaction may reject with; the endpoint may
\* stand for several nodes and other holders of a key may act, so a
\* rejection is not tied to the counts this process has seen
BroadcastErrors ==
  {NonceTooLow, NonceUsed, Underpriced, ConnectionLost, SupplyReached}
\* what web3.eth.getTransactionCount may reject with
FetchErrors == {ConnectionLost}

includes(message, word) == \E i \in DOMAIN message : message[i] = word

Max(x, y) == IF x >= y THEN x ELSE y

\* this.web3.utils.sha3(signedTx.rawTransaction): the raw transaction is
\* determined by the signer and the nonce signed into it
sha3(from, n) == <<from, n>>

VARIABLES
  chainCount,     \* environment: on-chain transaction count per address
  pendingNonces,  \* this.pendingNonces : Map address -> next nonce
  heap,           \* every txRecord object ever created, by creation order
  txHistory,      \* this.txHistory : references into heap, newest first
  file,           \* contents of ./tx_history.json
  diskFaulty,     \* environment: can writeFileSync throw in this behaviour
  maxHistoryItems, \* this.maxHistoryItems : the cap of txHistory
  variant,        \* which sendMonadMintTx the process runs
  mintMethodPresent, \* environment: has the contract the mint method
  faults,         \* environment: the errors a broadcast is rejected with
  broadcast,      \* per txRecord: is its sendSignedTransaction promise pending
  timer,          \* per txRecord: state of the setTimeout of timeoutPromise
  pc,             \* per chain: where its async call stands
  walletAddress,  \* per chain: the address argument
  onChainNonce,   \* per chain: value getTransactionCount replied
  nonce,          \* per chain: value getNonce returned
  txRecord,       \* per chain: reference of the record of its sendTransaction
  error,          \* per chain: message of the error thrown to the caller
  issued,         \* history: number of nonces getNonce returned, per address
  maxIssued,      \* history: largest nonce getNonce returned, per address
  start,          \* history: max(chainCount, pendingNonces) at Init
  calls,          \* history: number of getNonce calls made
  boots,          \* history: number of times the process was restarted
  queried,        \* history: the last getTransactionHistory call, if any
  mint,           \* per chain: the state of its sendMonadMintTx activation
  wallets,        \* walletManager.wallets : address -> its active flag
  activeContract, \* contractManager.activeContract: the web3 Contract
                  \* object, given by its address, or null
  contracts,      \* contractManager.contracts: the saved contracts in order
  batch,          \* the /mint commands handled: their Promise.all, report
  denied          \* history: the last command a handler turned away at its
                  \* test of the sender: the sender and the command

vars == <<chainCount, pendingNonces, heap, txHistory, file, diskFaulty,
          maxHistoryItems, variant, mintMethodPresent, faults,
          broadcast, timer, pc, walletAddress, onChainNonce, nonce, txRecord,
          error, issued, maxIssued, start, calls, boots, queried,
          mint, wallets, activeContract, contracts, batch, denied>>

\* the chains of a behaviour
Chains == DOMAIN pc

histVars  == <<issued, maxIssued, start, calls, boots, queried, mint, batch>>
chainVars == <<pc, walletAddress, onChainNonce, nonce, txRecord, error>>
\* written by the admin's commands only
adminVars == <<wallets, activeContract, contracts>>
\* not written by the managers or by a chain: set when the process starts,
\* or written by the admin's commands
fixedVars == <<diskFaulty, maxHistoryItems, variant, mintMethodPresent,
               faults, adminVars, denied>>
storeVars == <<heap, txHistory, file, fixedVars, broadcast, timer>>

\* -------------------------------------------------------------- helpers
\* JSON.stringify(this.txHistory): the records the array refers to
Snapshot(h, hist) == [i \in 1..Len(hist) |-> h[hist[i]]]

\* saveHistory(): writeFileSync replaces the file or, on a faulty disk, may
\* throw; the error is caught and logged and the file stays as it was
saveHistory(f, h, hist) ==
  IF diskFaulty THEN {Snapshot(h, hist), f} ELSE {Snapshot(h, hist)}

\* faulty variants of NonceFor: the reservation is ignored; the smaller of
\* the two values is taken
NonceForNoCache(pn, address, onChain) == onChain

NonceForMin(pn, address, onChain) ==
  LET pendingNonce == IF address \in DOMAIN pn /\ pn[address] # 0
                      THEN pn[address] ELSE onChain
  IN  IF onChain <= pendingNonce THEN onChain ELSE pendingNonce

\* lines 37-38 of getNonce: pendingNonces.get(address) || onChainNonce,
\* then Math.max
NonceFor(pn, address, onChain) ==
  LET pendingNonce == IF address \in DOMAIN pn /\ pn[address] # 0
                      THEN pn[address] ELSE onChain
  IN  Max(onChain, pendingNonce)

\* Map.set / Map.delete
MapSet(pn, address, value) ==
  [a \in DOMAIN pn \cup {address} |-> IF a = address THEN value ELSE pn[a]]
MapDelete(pn, address) == [a \in DOMAIN pn \ {address} |-> pn[a]]

\* faulty variant of Unshift: over the cap the second newest record goes
UnshiftEvictsRecent(hist, ref) ==
  LET grown == <<ref>> \o hist
  IN  IF Len(grown) > maxHistoryItems
      THEN <<ref>> \o SubSeq(grown, 3, Len(grown)) ELSE grown

\* lines 57-60: unshift, then pop when over the cap
Unshift(hist, ref) ==
  LET grown == <<ref>> \o hist
  IN  IF Len(grown) > maxHistoryItems
      THEN SubSeq(grown, 1, Len(grown) - 1) ELSE grown

\* ----------------------------------------------------------------- Init
\* the state a fresh process starts in: no history file, nothing issued
Fresh ==
  /\ chainCount = [a \in Addresses |-> 0]
  /\ pendingNonces = <<>>
  /\ heap = <<>>
  /\ txHistory = <<>>
  /\ file = <<>>
  /\ maxHistoryItems = HistoryCap
  /\ variant = "backoff"
  /\ mintMethodPresent = TRUE
  /\ faults = BroadcastErrors
  /\ broadcast = <<>>
  /\ timer = <<>>
  /\ pc = [c \in 1..NumChains |-> "idle"]
  /\ walletAddress = [c \in 1..NumChains |-> "0xa"]
  /\ onChainNonce = [c \in 1..NumChains |-> 0]
  /\ nonce = [c \in 1..NumChains |-> 0]
  /\ txRecord = [c \in 1..NumChains |-> 0]
  /\ error = [c \in 1..NumChains |-> NoMessage]
  /\ issued = [a \in Addresses |-> 0]
  /\ maxIssued = [a \in Addresses |-> -1]
  /\ start = [a \in Addresses |-> 0]
  /\ calls = 0
  /\ boots = 0
  /\ queried = <<>>
  /\ mint = <<>>
  /\ wallets = [a \in Addresses |-> TRUE]
  /\ activeContract = CONTRACT_ADDRESS
  /\ contracts = DefaultContracts
  /\ batch = <<>>
  /\ denied = <<>>

\* the disk is healthy
Init == Fresh /\ diskFaulty = FALSE

\* writes to the history file may fail
InitDisk == Fresh /\ diskFaulty = TRUE

\* -------------------------------------------------------------- getNonce
\* line 36, up to the await: the request for the on-chain count leaves and
\* the node reads the count it has at that time; the reply, or an error in
\* its place, arrives later, when the count may have moved on
Begin(c, address) ==
  /\ pc[c] \in {"idle", "returned", "threw", "nonceFailed", "backoff"}
  /\ pc' = [pc EXCEPT ![c] = "fetching"]
  /\ walletAddress' = [walletAddress EXCEPT ![c] = address]
  /\ onChainNonce' = [onChainNonce EXCEPT ![c] = chainCount[address]]
  /\ nonce' = [nonce EXCEPT ![c] = 0]
  /\ txRecord' = [txRecord EXCEPT ![c] = 0]
  /\ error' = [error EXCEPT ![c] = NoMessage]
  /\ UNCHANGED <<chainCount, pendingNonces, storeVars, issued, maxIssued,
                 start, boots, queried>>

\* a chain calls getNonce; the number of calls in a behaviour is bounded,
\* and the chains are numbered in the order of their first call
GetNonceCall(c, address) ==
  /\ calls < MaxCalls
  /\ \A d \in Chains : d < c => pc[d] # "idle"
  /\ calls' = calls + 1
  /\ Begin(c, address)
  /\ UNCHANGED <<mint, batch>>

\* faulty variant of RpcCountFail: a nonce is reserved before the await
RpcCountFailReserves(c) ==
  /\ pc[c] = "fetching"
  /\ \E m \in FetchErrors :
       /\ pc' = [pc EXCEPT ![c] = "nonceFailed"]
       /\ error' = [error EXCEPT ![c] = m]
  /\ pendingNonces' = [a \in DOMAIN pendingNonces \cup {walletAddress[c]} |->
                         IF a = walletAddress[c]
                         THEN chainCount[a] + 1 ELSE pendingNonces[a]]
  /\ UNCHANGED <<chainCount, storeVars, walletAddress,
                 onChainNonce, nonce, txRecord, histVars>>

\* getTransactionCount rejects: the await on line 36 throws out of getNonce
RpcCountFail(c) ==
  /\ pc[c] = "fetching"
  /\ \E m \in FetchErrors :
       /\ pc' = [pc EXCEPT ![c] = "nonceFailed"]
       /\ error' = [error EXCEPT ![c] = m]
  /\ UNCHANGED <<chainCount, pendingNonces, storeVars, walletAddress,
                 onChainNonce, nonce, txRecord, histVars>>

\* lines 37-40: the reply arrives and the rest of getNonce runs
GetNonceResume(c) ==
  /\ pc[c] = "fetching"
  /\ LET a == walletAddress[c]
         n == NonceFor(pendingNonces, a, onChainNonce[c])
     IN  /\ pendingNonces' = MapSet(pendingNonces, a, n + 1)
         /\ nonce' = [nonce EXCEPT ![c] = n]
         /\ issued' = [issued EXCEPT ![a] = @ + 1]
         /\ maxIssued' = [maxIssued EXCEPT ![a] = Max(@, n)]
  /\ pc' = [pc EXCEPT ![c] = "gotNonce"]
  /\ onChainNonce' = [onChainNonce EXCEPT ![c] = 0]
  /\ UNCHANGED <<chainCount, storeVars, walletAddress, txRecord, error,
                 start, calls, boots, queried, mint, batch>>

\* ------------------------------------------------------- sendTransaction
\* lines 47-55: the txRecord object; blockNumber/gasUsed are set together,
\* so one flag stands for both, and an absent error is NoMessage
NewRecord(from, n) ==
  [hash |-> sha3(from, n), from |-> from, status |-> "pending",
   blockNumber |-> FALSE, error |-> NoMessage]

\* lines 75-77
ConfirmedRecord(rec) ==
  [rec EXCEPT !.status = "confirmed", !.blockNumber = TRUE]

\* faulty variant of FailedRecord: the status is left as it was
FailedRecordKeepsStatus(rec, message) == [rec EXCEPT !.error = message]

\* lines 88-89
FailedRecord(rec, message) ==
  [rec EXCEPT !.status = "failed", !.error = message]

\* faulty variant of ShouldInvalidate: 'underpriced' is not looked for
ShouldInvalidateNonceOnly(message) == includes(message, "nonce")

\* line 98
ShouldInvalidate(message) ==
  includes(message, "nonce") \/ includes(message, "underpriced")

\* no sendTransaction call is awaiting the race of record ref any more
Settled(ref) == \A c \in Chains : ~(pc[c] = "racing" /\ txRecord[c] = ref)

\* the node includes a transaction only at the account's current count
Minable(ref) == heap[ref].hash[2] = chainCount[heap[ref].from]

\* lines 44-73: hash, record, unshift/pop, saveHistory, start of the race,
\* for a transaction signed with the nonce n
SendTransaction(c, n) ==
  /\ pc[c] = "gotNonce"
  /\ LET ref == Len(heap) + 1
     IN  /\ heap' = Append(heap, NewRecord(walletAddress[c], n))
         /\ txHistory' = Unshift(txHistory, ref)
         /\ file' \in saveHistory(file, heap', txHistory')
         /\ txRecord' = [txRecord EXCEPT ![c] = ref]
  /\ broadcast' = Append(broadcast, "inflight")
  /\ timer' = Append(timer, "armed")
  /\ pc' = [pc EXCEPT ![c] = "racing"]
  /\ UNCHANGED <<chainCount, pendingNonces, fixedVars, walletAddress,
                 onChainNonce, nonce, error, histVars>>

\* the caller signed with the nonce getNonce returned to it
SendTransactionCall(c) == SendTransaction(c, nonce[c])

\* lines 87-102: the catch block, entered with the error that won the race
Catch(c, message) ==
  /\ heap' = [heap EXCEPT ![txRecord[c]] = FailedRecord(@, message)]
  /\ file' \in saveHistory(file, heap', txHistory)
  /\ pendingNonces' = IF ShouldInvalidate(message)
                      THEN MapDelete(pendingNonces, walletAddress[c])
                      ELSE pendingNonces
  /\ error' = [error EXCEPT ![c] = message]
  /\ pc' = [pc EXCEPT ![c] = "threw"]
  /\ UNCHANGED <<txHistory, fixedVars, walletAddress, onChainNonce, nonce,
                 txRecord, histVars>>

\* the receipt arrives first: lines 70-86
BroadcastResolves(c) ==
  /\ pc[c] = "racing"
  /\ broadcast[txRecord[c]] = "inflight"
  /\ Minable(txRecord[c])
  /\ chainCount' = [chainCount EXCEPT ![walletAddress[c]] = @ + 1]
  /\ broadcast' = [broadcast EXCEPT ![txRecord[c]] = "settled"]
  /\ heap' = [heap EXCEPT ![txRecord[c]] = ConfirmedRecord(@)]
  /\ file' \in saveHistory(file, heap', txHistory)
  /\ pc' = [pc EXCEPT ![c] = "returned"]
  /\ UNCHANGED <<pendingNonces, txHistory, timer, fixedVars, walletAddress,
                 onChainNonce, nonce, txRecord, error, histVars>>

\* the broadcast is rejected first: line 70 throws into the catch block
BroadcastRejects(c) ==
  /\ pc[c] = "racing"
  /\ broadcast[txRecord[c]] = "inflight"
  /\ broadcast' = [broadcast EXCEPT ![txRecord[c]] = "settled"]
  /\ \E m \in faults : Catch(c, m)
  /\ UNCHANGED <<chainCount, timer>>

\* faulty variant of TimerFires: the timer is not part of the race
TimerFiresUnobserved(c) ==
  /\ pc[c] = "racing"
  /\ timer[txRecord[c]] = "armed"
  /\ timer' = [timer EXCEPT ![txRecord[c]] = "fired"]
  /\ UNCHANGED <<chainCount, pendingNonces, heap, txHistory, file, fixedVars,
                 broadcast, chainVars, histVars>>

\* the timer fires first: lines 65-67 reject, line 70 throws into the catch
TimerFires(c) ==
  /\ pc[c] = "racing"
  /\ timer[txRecord[c]] = "armed"
  /\ timer' = [timer EXCEPT ![txRecord[c]] = "fired"]
  /\ Catch(c, TimeoutMessage)
  /\ UNCHANGED <<chainCount, broadcast>>

\* faulty variant of LateResolve: the late receipt is written to the record
LateResolveMutates(ref) ==
  /\ Settled(ref)
  /\ broadcast[ref] = "inflight"
  /\ Minable(ref)
  /\ chainCount' = [chainCount EXCEPT ![heap[ref].from] = @ + 1]
  /\ broadcast' = [broadcast EXCEPT ![ref] = "settled"]
  /\ heap' = [heap EXCEPT ![ref] = ConfirmedRecord(@)]
  /\ UNCHANGED <<pendingNonces, txHistory, file, fixedVars, timer, chainVars,
                 histVars>>

\* the abandoned loser of a race completes: nothing is subscribed to it
LateResolve(ref) ==
  /\ Settled(ref)
  /\ broadcast[ref] = "inflight"
  /\ Minable(ref)
  /\ chainCount' = [chainCount EXCEPT ![heap[ref].from] = @ + 1]
  /\ broadcast' = [broadcast EXCEPT ![ref] = "settled"]
  /\ UNCHANGED <<pendingNonces, heap, txHistory, file, fixedVars, timer,
                 chainVars, histVars>>

LateReject(ref) ==
  /\ Settled(ref)
  /\ broadcast[ref] = "inflight"
  /\ broadcast' = [broadcast EXCEPT ![ref] = "settled"]
  /\ UNCHANGED <<chainCount, pendingNonces, heap, txHistory, file, fixedVars,
                 timer, chainVars, histVars>>

LateTimer(ref) ==
  /\ Settled(ref)
  /\ timer[ref] = "armed"
  /\ timer' = [timer EXCEPT ![ref] = "fired"]
  /\ UNCHANGED <<chainCount, pendingNonces, heap, txHistory, file, fixedVars,
                 broadcast, chainVars, histVars>>

\* ------------------------------------------------------- specification

Next ==
  \/ \E c \in Chains, a \in Addresses : GetNonceCall(c, a)
  \/ \E c \in Chains : RpcCountFail(c)
  \/ \E c \in Chains : GetNonceResume(c)
  \/ \E c \in Chains : SendTransactionCall(c)
  \/ \E c \in Chains : BroadcastResolves(c)
  \/ \E c \in Chains : BroadcastRejects(c)
  \/ \E c \in Chains : TimerFires(c)
  \/ \E ref \in DOMAIN heap : LateResolve(ref)
  \/ \E ref \in DOMAIN heap : LateReject(ref)
  \/ \E ref \in DOMAIN heap : LateTimer(ref)

Spec == Init /\ [][Next]_vars

SpecDisk == InitDisk /\ [][Next]_vars

\* --------------------------------------- allocation-only specification
\* N callers invoke getNonce concurrently, nothing else runs; the allocator
\* starts from any on-chain counts and any reservation state the program
\* can have left behind (a stored value is an issued nonce plus one; the
\* count may lie above it when other holders of the key have acted).
PendingMaps ==
  UNION {[D -> 1..(MaxChain + 1)] : D \in SUBSET Addresses}

InitAlloc ==
  /\ chainCount \in [Addresses -> 0..MaxChain]
  /\ pendingNonces \in PendingMaps
  /\ heap = <<>>
  /\ txHistory = <<>>
  /\ file = <<>>
  /\ diskFaulty = FALSE
  /\ maxHistoryItems = HistoryCap
  /\ variant = "backoff"
  /\ mintMethodPresent = TRUE
  /\ faults = BroadcastErrors
  /\ broadcast = <<>>
  /\ timer = <<>>
  /\ pc = [c \in 1..NumCallers |-> "idle"]
  /\ walletAddress = [c \in 1..NumCallers |-> "0xa"]
  /\ onChainNonce = [c \in 1..NumCallers |-> 0]
  /\ nonce = [c \in 1..NumCallers |-> 0]
  /\ txRecord = [c \in 1..NumCallers |-> 0]
  /\ error = [c \in 1..NumCallers |-> NoMessage]
  /\ issued = [a \in Addresses |-> 0]
  /\ maxIssued = [a \in Addresses |->
                    IF a \in DOMAIN pendingNonces
                    THEN pendingNonces[a] - 1 ELSE -1]
  /\ start = [a \in Addresses |->
                IF a \in DOMAIN pendingNonces
                THEN Max(chainCount[a], pendingNonces[a])
                ELSE chainCount[a]]
  /\ calls = 0
  /\ boots = 0
  /\ queried = <<>>
  /\ mint = <<>>
  /\ wallets = [a \in Addresses |-> TRUE]
  /\ activeContract = CONTRACT_ADDRESS
  /\ contracts = DefaultContracts
  /\ batch = <<>>
  /\ denied = <<>>

\* each caller makes one call; callers are numbered in the order they call
AllocCall(c, address) ==
  /\ pc[c] = "idle"
  /\ \A d \in Chains : d < c => pc[d] # "idle"
  /\ Begin(c, address)
  /\ UNCHANGED <<calls, mint, batch>>

NextAlloc ==
  \/ \E c \in Chains, a \in Addresses : AllocCall(c, a)
  \/ \E c \in Chains : RpcCountFail(c)
  \/ \E c \in Chains : GetNonceResume(c)

SpecAlloc == InitAlloc /\ [][NextAlloc]_vars

\* ------------------------------- specification of the History Store
\* One caller submits to a TransactionManager that was constructed on an
\* existing history file; the process may crash between two turns of the
\* event loop and be started again.

\* the callers of this specification
StoreChains == {1}

\* faulty variant of loadHistory: a record found pending is marked failed
loadHistoryReconciles(f) ==
  [i \in 1..Len(f) |->
     IF f[i].status = "pending" THEN [f[i] EXCEPT !.status = "failed"]
     ELSE f[i]]

\* line 19 of loadHistory: JSON.parse(fs.readFileSync(...)).  The file is
\* modelled as the sequence of records its JSON text denotes: stringify
\* leaves out only properties that are undefined and parse yields them
\* absent again, so every property of a record is read back as written.
loadHistory(f) == [i \in 1..Len(f) |-> f[i]]

\* the objects JSON.parse creates are new ones: they join the heap, and
\* this.txHistory refers to them in the order of the file
Loaded(h, f) == h \o loadHistory(f)
LoadedRefs(h, f) == [i \in 1..Len(f) |-> Len(h) + i]
NoneFor(f) == [i \in 1..Len(f) |-> "none"]

\* the sender of the i-th newest record of the file the process starts on
StoredFrom(i) == IF i % 2 = 1 THEN "0xa" ELSE "0xb"

\* a history file of k confirmed transactions, newest first; a sender's
\* transactions carry its nonces 0, 1, ... in the order they were made
StoredFile(k) ==
  [i \in 1..k |->
     ConfirmedRecord(
       NewRecord(StoredFrom(i),
                 Cardinality({j \in (i + 1)..k : StoredFrom(j) = StoredFrom(i)})))]

InitStore ==
  /\ \E k \in 0..StoreCap : file = StoredFile(k)
  /\ chainCount = [a \in Addresses |->
                     Cardinality({i \in DOMAIN file : file[i].from = a})]
  /\ pendingNonces = <<>>
  /\ heap = Loaded(<<>>, file)
  /\ txHistory = LoadedRefs(<<>>, file)
  /\ diskFaulty = FALSE
  /\ maxHistoryItems = StoreCap
  /\ variant = "backoff"
  /\ mintMethodPresent = TRUE
  /\ faults = BroadcastErrors
  /\ broadcast = NoneFor(file)
  /\ timer = NoneFor(file)
  /\ pc = [c \in StoreChains |-> "idle"]
  /\ walletAddress = [c \in StoreChains |-> "0xa"]
  /\ onChainNonce = [c \in StoreChains |-> 0]
  /\ nonce = [c \in StoreChains |-> 0]
  /\ txRecord = [c \in StoreChains |-> 0]
  /\ error = [c \in StoreChains |-> NoMessage]
  /\ issued = [a \in Addresses |-> 0]
  /\ maxIssued = [a \in Addresses |-> chainCount[a] - 1]
  /\ start = chainCount
  /\ calls = 0
  /\ boots = 0
  /\ queried = <<>>
  /\ mint = <<>>
  /\ wallets = [a \in Addresses |-> TRUE]
  /\ activeContract = CONTRACT_ADDRESS
  /\ contracts = DefaultContracts
  /\ batch = <<>>
  /\ denied = <<>>

\* faulty variant of Restart: the reservations outlive the process
RestartKeepsNonces ==
  /\ boots < MaxRestarts
  /\ boots' = boots + 1
  /\ heap' = Loaded(heap, file)
  /\ txHistory' = LoadedRefs(heap, file)
  /\ broadcast' = broadcast \o NoneFor(file)
  /\ timer' = [ref \in DOMAIN timer |->
                 IF timer[ref] = "armed" THEN "cleared" ELSE timer[ref]]
               \o NoneFor(file)
  /\ pc' = [c \in Chains |-> "idle"]
  /\ walletAddress' = [c \in Chains |-> "0xa"]
  /\ onChainNonce' = [c \in Chains |-> 0]
  /\ nonce' = [c \in Chains |-> 0]
  /\ txRecord' = [c \in Chains |-> 0]
  /\ error' = [c \in Chains |-> NoMessage]
  /\ UNCHANGED <<chainCount, pendingNonces, file, fixedVars, issued,
                 maxIssued, start, calls, queried, mint, batch>>

\* the process dies and is started again: every pending callback and timer
\* is gone with it, the constructor (lines 6-14) makes an empty
\* pendingNonces map and loadHistory (lines 16-25) reads the file; what
\* was broadcast stays with the node
Restart ==
  /\ boots < MaxRestarts
  /\ boots' = boots + 1
  /\ pendingNonces' = <<>>
  /\ heap' = Loaded(heap, file)
  /\ txHistory' = LoadedRefs(heap, file)
  /\ broadcast' = broadcast \o NoneFor(file)
  /\ timer' = [ref \in DOMAIN timer |->
                 IF timer[ref] = "armed" THEN "cleared" ELSE timer[ref]]
               \o NoneFor(file)
  /\ pc' = [c \in Chains |-> "idle"]
  /\ walletAddress' = [c \in Chains |-> "0xa"]
  /\ onChainNonce' = [c \in Chains |-> 0]
  /\ nonce' = [c \in Chains |-> 0]
  /\ txRecord' = [c \in Chains |-> 0]
  /\ error' = [c \in Chains |-> NoMessage]
  /\ UNCHANGED <<chainCount, file, fixedVars, issued, maxIssued, start, calls,
                 queried, mint, batch>>

NextStore ==
  \/ Next
  \/ Restart

SpecStore == InitStore /\ [][NextStore]_vars

\* ------------------------------------------------ getTransactionHistory
\* the address argument left out: null, falsy on line 106 like ''
null == ""

\* what a caller may pass as address: null, an address in either case, an
\* address nothing was sent from
QueryAddresses == {null, "0xa", "0xA", "0xb", "0xB", "0xc"}

\* the senders records may be stored with
StoredSenders == {"0xa", "0xA", "0xb"}

\* faulty variant of toLowerCase: the string is left as it is
toLowerCaseKeeps(s) == s

\* String.prototype.toLowerCase on the addresses of the model
toLowerCase(s) ==
  CASE s = "0xA" -> "0xa"
    [] s = "0xB" -> "0xb"
    [] OTHER -> s

Min(x, y) == IF x <= y THEN x ELSE y

\* Array.prototype.slice(0, end): a negative end counts from the back
slice(seq, end) ==
  LET e == IF end < 0 THEN Max(Len(seq) + end, 0) ELSE Min(end, Len(seq))
  IN  SubSeq(seq, 1, e)

\* Array.prototype.filter with the predicate of line 108
filter(h, hist, address) ==
  SelectSeq(hist, LAMBDA ref : toLowerCase(h[ref].from) = toLowerCase(address))

\* lines 105-112: a new array of the same record objects
getTransactionHistory(h, hist, address, limit) ==
  IF address # null
  THEN slice(filter(h, hist, address), limit)
  ELSE slice(hist, limit)

\* faulty variant of getTransactionHistoryCall: the records returned are
\* cut out of this.txHistory (splice for slice)
getTransactionHistorySplices(address, limit) ==
  /\ LET result == getTransactionHistory(heap, txHistory, address, limit)
     IN  /\ queried' = <<[address |-> address, limit |-> limit,
                          result |-> result,
                          again |-> /\ queried # <<>>
                                    /\ queried[1].address = address
                                    /\ queried[1].limit = limit]>>
         /\ txHistory' =
              SelectSeq(txHistory,
                        LAMBDA ref : \A i \in DOMAIN result : result[i] # ref)
  /\ UNCHANGED <<chainCount, pendingNonces, heap, file, fixedVars, broadcast,
                 timer, chainVars, issued, maxIssued, start, calls, boots,
                 mint, batch>>

\* a call of getTransactionHistory; it is synchronous, so the call and its
\* return are one step.  again: the call before it had the same arguments
getTransactionHistoryCall(address, limit) ==
  /\ queried' = <<[address |-> address, limit |-> limit,
                   result |-> getTransactionHistory(heap, txHistory,
                                                    address, limit),
                   again |-> /\ queried # <<>>
                             /\ queried[1].address = address
                             /\ queried[1].limit = limit]>>
  /\ UNCHANGED <<chainCount, pendingNonces, storeVars, chainVars, issued,
                 maxIssued, start, calls, boots, mint, batch>>

\* a history of k records from any senders, newest first, as the manager
\* holds it once the calls that made the records have ended
InitQuery ==
  /\ \E k \in 0..StoreCap : \E senders \in [1..k -> StoredSenders] :
       heap = [i \in 1..k |-> ConfirmedRecord(NewRecord(senders[i], i))]
  /\ txHistory = [i \in 1..Len(heap) |-> Len(heap) + 1 - i]
  /\ file = Snapshot(heap, txHistory)
  /\ chainCount = [a \in Addresses |-> 0]
  /\ pendingNonces = <<>>
  /\ diskFaulty = FALSE
  /\ maxHistoryItems = StoreCap
  /\ variant = "backoff"
  /\ mintMethodPresent = TRUE
  /\ faults = BroadcastErrors
  /\ broadcast = [i \in 1..Len(heap) |-> "settled"]
  /\ timer = [i \in 1..Len(heap) |-> "fired"]
  /\ pc = <<>>
  /\ walletAddress = <<>>
  /\ onChainNonce = <<>>
  /\ nonce = <<>>
  /\ txRecord = <<>>
  /\ error = <<>>
  /\ issued = [a \in Addresses |-> 0]
  /\ maxIssued = [a \in Addresses |-> -1]
  /\ start = [a \in Addresses |-> 0]
  /\ calls = 0
  /\ boots = 0
  /\ queried = <<>>
  /\ mint = <<>>
  /\ wallets = [a \in Addresses |-> TRUE]
  /\ activeContract = CONTRACT_ADDRESS
  /\ contracts = DefaultContracts
  /\ batch = <<>>
  /\ denied = <<>>

NextQuery ==
  \E address \in QueryAddresses, limit \in 0..(StoreCap + 1) :
    getTransactionHistoryCall(address, limit)

SpecQuery == InitQuery /\ [][NextQuery]_vars

\* ------------------------------------------------------ ContractManager
\* contracts.find(c => c.address.toLowerCase() === address.toLowerCase()):
\* the place of the first such contract, 0 if there is none
findContract(cs, address) ==
  LET found == {i \in DOMAIN cs :
                  toLowerCase(cs[i].address) = toLowerCase(address)}
  IN  IF found = {} THEN 0
      ELSE CHOOSE i \in found : \A j \in found : i <= j

\* 2contracts.js lines 62-65 (transaction.js lines 178-181): the address
\* of the first contract flagged active
getActiveContractAddress ==
  LET flagged == {i \in DOMAIN contracts : contracts[i].active}
  IN  IF flagged = {} THEN null
      ELSE contracts[CHOOSE i \in flagged :
                       \A j \in flagged : i <= j].address

\* saveContracts(), lines 30-32: writeFileSync with no try/catch; whether
\* it may throw to the caller
saveContractsMayThrow == diskFaulty

\* addContract, lines 71-96: a saved address is refused; the new contract
\* is pushed with active: false
AddContract(address) ==
  /\ findContract(contracts, address) = 0
  /\ contracts' = Append(contracts, [address |-> address, active |-> FALSE])
  /\ UNCHANGED <<chainCount, pendingNonces, heap, txHistory, file,
                 diskFaulty, maxHistoryItems, variant, mintMethodPresent,
                 faults, denied, wallets, activeContract, broadcast, timer,
                 chainVars, histVars>>

\* activateContract, lines 98-126 (/contuse): the flags are set, then
\* saveContracts runs, then the instance is replaced; a throw of
\* saveContracts leaves the method before the instance is replaced
ActivateContract(address) ==
  LET k == findContract(contracts, address)
  IN  /\ k # 0
      /\ contracts' = [i \in DOMAIN contracts |->
                         [contracts[i] EXCEPT !.active = (i = k)]]
      /\ \/ activeContract' = contracts[k].address
         \/ saveContractsMayThrow /\ activeContract' = activeContract
      /\ UNCHANGED <<chainCount, pendingNonces, heap, txHistory, file,
                     diskFaulty, maxHistoryItems, variant,
                     mintMethodPresent, faults, denied, wallets, broadcast, timer,
                     chainVars, histVars>>

\* removeContract, lines 128-161 (/contrem): the contract is filtered out;
\* if it was the active one the first of the rest takes over, and with no
\* contract left the instance is null; saveContracts runs last
RemoveContract(address) ==
  LET k == findContract(contracts, address)
      wasActive == contracts[k].active
      rest == SelectSeq(contracts,
                        LAMBDA c : toLowerCase(c.address)
                                     # toLowerCase(address))
  IN  /\ k # 0
      /\ IF wasActive /\ Len(rest) > 0
         THEN /\ contracts' = [rest EXCEPT ![1].active = TRUE]
              /\ activeContract' = rest[1].address
         ELSE /\ contracts' = rest
              /\ activeContract' = IF Len(rest) = 0 THEN null
                                   ELSE activeContract
      /\ UNCHANGED <<chainCount, pendingNonces, heap, txHistory, file,
                     diskFaulty, maxHistoryItems, variant,
                     mintMethodPresent, faults, denied, wallets, broadcast, timer,
                     chainVars, histVars>>

\* ------------------------------------------------------ sendMonadMintTx
\* The submission chain of one wallet: sendMonadMintTx and the activations
\* it makes of itself.  The repository holds the function in a variant that
\* waits a fixed time between attempts (part_000 lines 37-95, the same
\* catch block as 2ndindex.js lines 136-157) and in one with fatal errors
\* and exponential backoff (part_000 lines 451-563).

\* CONFIG.MAX_RETRY_COUNT, config.js line 20 (the default)
MAX_RETRY_COUNT == 2

\* the literal 3000 of the setTimeout calls
baseDelay == 3000

\* "nonceData": 2ndindex.js lines 74-158, the fixed-delay chain that takes
\* the value of getNonce for an object
Variants == {"fixed", "backoff", "nonceData"}

MintChains == {1}

\* the wallet a chain mints from
MintWallet(c) == IF c = 1 THEN "0xa" ELSE "0xb"

\* lines 537 and 542 of the backoff variant; the fixed variant has no such
\* test
IsFatal(message) ==
  /\ variant = "backoff"
  /\ \/ includes(message, "Maximum supply")
     \/ includes(message, "not found in contract")

\* faulty variant of ShouldRetry: one activation more is made
ShouldRetryOnceMore(retryCount) == retryCount <= MAX_RETRY_COUNT

\* line 547 (line 86 in the fixed variant)
ShouldRetry(retryCount) == retryCount < MAX_RETRY_COUNT

\* line 549 (line 88 in the fixed variant)
waitTime(retryCount) ==
  IF variant = "backoff" THEN baseDelay * 2^retryCount ELSE baseDelay

\* ------------------------------------------------ what the chat is told
\* the length of the mint method name set with /setmethods, which takes
\* any text without a comma (part_000 lines 753-775)
MintMethodNameChars == 64

\* String.length of an error message, for one example of each message:
\* the literals of the repository, the node's "Returned error: ..." texts,
\* and a connection error that quotes the reply it could not parse
chars(message) ==
  CASE message = TimeoutMessage -> 19
    [] message = NonceTooLow    -> 29
    [] message = NonceUsed      -> 34
    [] message = Underpriced    -> 51
    [] message = ConnectionLost -> 160
    [] message = SupplyReached  -> 42
    [] message = MethodMissing  -> 54 + MintMethodNameChars
    [] message = NotAFunction   -> 45
    [] message = WalletInactive -> 72
    [] message = NoContract     -> 29
    [] message = WriteFailed    -> 38
    [] OTHER                    -> 0

\* error.message as a string: its words and its length
Text(message) == [words |-> message, chars |-> chars(message)]
NoText == [words |-> NoMessage, chars |-> 0]

\* String.substring(0, end)
substring(text, end) == [text EXCEPT !.chars = Min(@, end)]

\* a message to the chat: the template, the address and the error text it
\* carries and the transaction hash it links to
NoHash == <<>>
NoChat == [kind |-> "none", from |-> "", error |-> NoText, hash |-> NoHash]

\* telegram.js lines 7-11
transactionSuccess(txHash, address) ==
  [kind |-> "Mint Successful", from |-> address, error |-> NoText,
   hash |-> txHash]

\* telegram.js lines 13-17
transactionFailed(text, address) ==
  [kind |-> "Mint Failed", from |-> address, error |-> substring(text, 100),
   hash |-> NoHash]

\* part_000 line 538
SupplyNotice ==
  [kind |-> "Mint Failed: Maximum supply reached", from |-> "",
   error |-> NoText, hash |-> NoHash]

\* part_000 line 543: the error message as it is
ErrorNotice(text) ==
  [kind |-> "error", from |-> "", error |-> text, hash |-> NoHash]

\* part_000 line 548 (line 87 in the fixed variant)
RetryNotice(text) ==
  [kind |-> "Retrying", from |-> "", error |-> substring(text, 100),
   hash |-> NoHash]

\* ------------------------------------------------------ the /mint handler
\* the Promise.all of a /mint command and the report of the handler
NoReport == [text |-> "none", counts |-> <<>>]

\* part_000 lines 617-618 (line 120 in the fixed variant)
BatchComplete(successful, total) ==
  [text |-> "Batch mint complete", counts |-> <<successful, total>>]

\* part_000 line 621
SomeFailed == [text |-> "Some mints failed", counts |-> <<>>]

\* the batches whose Promise.all holds the promise of chain c
BatchOf(b, c) == {j \in DOMAIN b : c \in b[j].chains}

\* chain c ends with the outcome: Promise.all rejects with the first
\* rejection and fulfils with the last fulfilment, and the handler
\* reports in the same turn; receipts.filter(r => r) keeps every receipt
Settle(b, c, outcome) ==
  [j \in DOMAIN b |->
     IF c \notin b[j].chains \/ b[j].report # NoReport THEN b[j]
     ELSE IF outcome = "failed" THEN [b[j] EXCEPT !.report = SomeFailed]
     ELSE IF outcome = "done"
             /\ \A d \in b[j].chains \ {c} : pc[d] = "done"
     THEN LET receipts == b[j].chains
          IN  [b[j] EXCEPT !.report = BatchComplete(Cardinality(receipts),
                                                    b[j].total)]
     ELSE b[j]]

\* the activation sendMonadMintTx(walletAddress, msg, k) begins; line 458
\* reads the address of the active contract into activeContractAddress
Started(m, k) ==
  [m EXCEPT !.retryCount = k, !.attempts = @ + 1,
            !.to = getActiveContractAddress]

\* the catch block: where the activation goes, and what the chain holds
\* afterwards (errors: the errors caught so far, remaining: the time the
\* timer of line 550 has still to run)
AfterCatch(m, message) ==
  IF IsFatal(message) THEN "failed"
  ELSE IF ShouldRetry(m.retryCount) THEN "backoff" ELSE "failed"

\* the message the catch block sends: lines 537-560
Said(m, message, address) ==
  IF variant = "backoff" /\ includes(message, "Maximum supply")
  THEN SupplyNotice
  ELSE IF variant = "backoff" /\ includes(message, "not found in contract")
  THEN ErrorNotice(Text(message))
  ELSE IF ShouldRetry(m.retryCount) THEN RetryNotice(Text(message))
  ELSE transactionFailed(Text(message), address)

Caught(m, message, address) ==
  [m EXCEPT !.errors = Append(@, message),
            !.remaining = IF AfterCatch(m, message) = "backoff"
                          THEN waitTime(m.retryCount) ELSE 0,
            !.said = Said(m, message, address)]

\* lines 453-467: the error the tests of the input throw, if any (the
\* test of the method only in the backoff variant)
PreCheck(address) ==
  IF ~wallets[address] THEN WalletInactive
  ELSE IF getActiveContractAddress = null THEN NoContract
  ELSE IF variant = "backoff" /\ ~mintMethodPresent THEN MethodMissing
  ELSE NoMessage

\* an activation up to its first await on the manager: the tests of lines
\* 453-467, whose throw lands in the catch block in the same turn, then
\* getNonce
Attempt(c, k) ==
  LET message == PreCheck(walletAddress[c])
      m == Started(mint[c], k)
  IN  IF message # NoMessage
      THEN /\ error' = [error EXCEPT ![c] = message]
           /\ pc' = [pc EXCEPT ![c] = AfterCatch(m, message)]
           /\ mint' = [mint EXCEPT
                         ![c] = Caught(m, message, walletAddress[c])]
           /\ batch' = Settle(batch, c, AfterCatch(m, message))
           /\ UNCHANGED <<chainCount, pendingNonces, storeVars,
                          walletAddress, onChainNonce, nonce, txRecord,
                          issued, maxIssued, start, calls, boots, queried>>
      ELSE /\ Begin(c, walletAddress[c])
           /\ mint' = [mint EXCEPT ![c] = m]
           /\ UNCHANGED <<calls, batch>>

\* sendMonadMintTx(wallet.address, msg) is called for one wallet
MintStart(c) ==
  /\ pc[c] = "idle"
  /\ BatchOf(batch, c) = {}
  /\ Attempt(c, 0)

\* fixed variant without the method: building the transaction (line 63)
\* throws after getNonce has returned, and the catch block runs
MintEncodeFails(c) ==
  /\ pc[c] = "gotNonce"
  /\ ~mintMethodPresent
  /\ error' = [error EXCEPT ![c] = NotAFunction]
  /\ pc' = [pc EXCEPT ![c] = AfterCatch(mint[c], NotAFunction)]
  /\ mint' = [mint EXCEPT ![c] = Caught(@, NotAFunction, walletAddress[c])]
  /\ batch' = Settle(batch, c, AfterCatch(mint[c], NotAFunction))
  /\ UNCHANGED <<chainCount, pendingNonces, storeVars, walletAddress,
                 onChainNonce, nonce, txRecord, issued, maxIssued, start,
                 calls, boots, queried>>

\* an absent property of a JavaScript object
undefined == -1

\* the nonce field of the tx object: line 501 (line 67 in the fixed
\* variant); 2ndindex.js line 104 reads nonceData.nonce of the number that
\* getNonce returned
txNonce(c) == IF variant = "nonceData" THEN undefined ELSE nonce[c]

\* account.signTransaction(tx): web3 1.x fills an absent nonce with the
\* on-chain transaction count of the account
signTransaction(c) ==
  IF txNonce(c) = undefined THEN chainCount[walletAddress[c]]
  ELSE txNonce(c)

\* lines 493-531: the transaction is built and signed and handed to
\* sendTransaction
MintSend(c) ==
  /\ mintMethodPresent
  /\ SendTransaction(c, signTransaction(c))

\* faulty variant of MintCatch: a chain that ends in failure ends the
\* other chains of its batch with it
MintCatchCancelsBatch(c) ==
  /\ pc[c] \in {"threw", "nonceFailed"}
  /\ LET m == IF pc[c] = "threw"
              THEN [mint[c] EXCEPT !.signed = Append(@, nonce[c])]
              ELSE mint[c]
         after == AfterCatch(m, error[c])
     IN  /\ pc' = [d \in Chains |->
                     IF d = c THEN after
                     ELSE IF /\ after = "failed"
                             /\ BatchOf(batch, d) = BatchOf(batch, c)
                             /\ pc[d] \notin {"idle", "done"}
                     THEN "failed" ELSE pc[d]]
         /\ mint' = [mint EXCEPT
                       ![c] = Caught(m, error[c], walletAddress[c])]
         /\ batch' = Settle(batch, c, after)
  /\ UNCHANGED <<chainCount, pendingNonces, storeVars, walletAddress,
                 onChainNonce, nonce, txRecord, error, issued, maxIssued,
                 start, calls, boots, queried>>

\* getNonce or sendTransaction threw: the catch block of the activation;
\* signed: the nonces of the attempts that ended after signing
MintCatch(c) ==
  /\ pc[c] \in {"threw", "nonceFailed"}
  /\ LET m == IF pc[c] = "threw"
              THEN [mint[c] EXCEPT !.signed = Append(@, nonce[c])]
              ELSE mint[c]
     IN  /\ pc' = [pc EXCEPT ![c] = AfterCatch(m, error[c])]
         /\ mint' = [mint EXCEPT
                       ![c] = Caught(m, error[c], walletAddress[c])]
         /\ batch' = Settle(batch, c, AfterCatch(m, error[c]))
  /\ UNCHANGED <<chainCount, pendingNonces, storeVars, walletAddress,
                 onChainNonce, nonce, txRecord, error, issued, maxIssued,
                 start, calls, boots, queried>>

\* sendTransaction returned the receipt: lines 533-535.  updateLastUsed
\* rewrites the wallet file (wallet.js lines 52-54 and 128-137) with a
\* writeFileSync that nothing guards: on a faulty disk it may throw, inside
\* the try block of sendMonadMintTx, and the catch block runs
MintReturn(c) ==
  /\ pc[c] = "returned"
  /\ \/ /\ pc' = [pc EXCEPT ![c] = "done"]
        /\ mint' = [mint EXCEPT
                      ![c].said = transactionSuccess(heap[txRecord[c]].hash,
                                                     walletAddress[c])]
        /\ batch' = Settle(batch, c, "done")
        /\ UNCHANGED error
     \/ /\ diskFaulty
        /\ LET m == [mint[c] EXCEPT !.signed = Append(@, nonce[c])]
           IN  /\ error' = [error EXCEPT ![c] = WriteFailed]
               /\ pc' = [pc EXCEPT ![c] = AfterCatch(m, WriteFailed)]
               /\ mint' = [mint EXCEPT
                             ![c] = Caught(m, WriteFailed, walletAddress[c])]
               /\ batch' = Settle(batch, c, AfterCatch(m, WriteFailed))
  /\ UNCHANGED <<chainCount, pendingNonces, storeVars, walletAddress,
                 onChainNonce, nonce, txRecord, issued, maxIssued,
                 start, calls, boots, queried>>

\* faulty variant of BackoffTick: the timer of the wait never runs down
BackoffTickHolds(c) ==
  /\ pc[c] = "backoff"
  /\ mint[c].remaining > 0
  /\ mint' = [mint EXCEPT ![c].remaining = @]
  /\ UNCHANGED <<chainCount, pendingNonces, storeVars, chainVars, issued,
                 maxIssued, start, calls, boots, queried, batch>>

\* time passes for the timer of line 550
BackoffTick(c) ==
  /\ pc[c] = "backoff"
  /\ mint[c].remaining > 0
  /\ mint' = [mint EXCEPT ![c].remaining = @ - baseDelay]
  /\ UNCHANGED <<chainCount, pendingNonces, storeVars, chainVars, issued,
                 maxIssued, start, calls, boots, queried, batch>>

\* the timer has run: line 551, sendMonadMintTx(..., retryCount + 1)
MintRetry(c) ==
  /\ pc[c] = "backoff"
  /\ mint[c].remaining = 0
  /\ Attempt(c, mint[c].retryCount + 1)

\* /togglewallet: wallet.js lines 97-112
ToggleWallet(address) ==
  /\ wallets' = [wallets EXCEPT ![address] = ~@]
  /\ UNCHANGED <<chainCount, pendingNonces, heap, txHistory, file,
                 diskFaulty, maxHistoryItems, variant, mintMethodPresent,
                 faults, denied,
                 activeContract, contracts, broadcast, timer, chainVars,
                 histVars>>

FreshMint ==
  /\ chainCount = [a \in Addresses |-> 0]
  /\ pendingNonces = <<>>
  /\ heap = <<>>
  /\ txHistory = <<>>
  /\ file = <<>>
  /\ maxHistoryItems = StoreCap
  /\ variant \in Variants
  /\ mintMethodPresent \in BOOLEAN
  /\ faults = BroadcastErrors
  /\ broadcast = <<>>
  /\ timer = <<>>
  /\ pc = [c \in MintChains |-> "idle"]
  /\ walletAddress = [c \in MintChains |-> MintWallet(c)]
  /\ onChainNonce = [c \in MintChains |-> 0]
  /\ nonce = [c \in MintChains |-> 0]
  /\ txRecord = [c \in MintChains |-> 0]
  /\ error = [c \in MintChains |-> NoMessage]
  /\ issued = [a \in Addresses |-> 0]
  /\ maxIssued = [a \in Addresses |-> -1]
  /\ start = [a \in Addresses |-> 0]
  /\ calls = 0
  /\ boots = 0
  /\ queried = <<>>
  /\ mint = [c \in MintChains |->
               [retryCount |-> 0, attempts |-> 0, remaining |-> 0,
                signed |-> <<>>, errors |-> <<>>, said |-> NoChat,
                to |-> null]]
  /\ wallets = [a \in Addresses |-> TRUE]
  /\ activeContract = CONTRACT_ADDRESS
  /\ contracts = DefaultContracts
  /\ batch = <<>>
  /\ denied = <<>>

\* the disk is healthy
InitMint == FreshMint /\ diskFaulty = FALSE

\* writes to the files of the bot may fail
InitMintDisk == FreshMint /\ diskFaulty = TRUE

NextMint ==
  \/ \E c \in Chains : MintStart(c)
  \/ \E c \in Chains : RpcCountFail(c)
  \/ \E c \in Chains : GetNonceResume(c)
  \/ \E c \in Chains : MintEncodeFails(c)
  \/ \E c \in Chains : MintSend(c)
  \/ \E c \in Chains : BroadcastResolves(c)
  \/ \E c \in Chains : BroadcastRejects(c)
  \/ \E c \in Chains : TimerFires(c)
  \/ \E c \in Chains : MintCatch(c)
  \/ \E c \in Chains : MintReturn(c)
  \/ \E c \in Chains : BackoffTick(c)
  \/ \E c \in Chains : MintRetry(c)
  \/ \E ref \in DOMAIN heap : LateResolve(ref)
  \/ \E ref \in DOMAIN heap : LateReject(ref)
  \/ \E ref \in DOMAIN heap : LateTimer(ref)
  \/ \E c \in Chains : ToggleWallet(walletAddress[c])
  \/ RemoveContract(CONTRACT_ADDRESS)

SpecMint == InitMint /\ [][NextMint]_vars

SpecMintDisk == InitMintDisk /\ [][NextMint]_vars

\* ------------------------------------------------------------ /mint
\* The /mint handler (part_000 lines 600-623 and 105-129, 2ndindex.js lines
\* 195-218) and the chains it starts, one for each active wallet.
BatchChains == {1, 2}

\* walletManager.wallets, in the order of the array
WalletOrder == <<"0xa", "0xb">>

\* getActiveWallets(): wallet.js lines 93-95
getActiveWallets == SelectSeq(WalletOrder, LAMBDA a : wallets[a])

\* the chains no command has taken, lowest first
FreeChains == {c \in Chains : pc[c] = "idle" /\ BatchOf(batch, c) = {}}
FreeChain(i) ==
  CHOOSE c \in FreeChains :
    Cardinality({d \in FreeChains : d < c}) = i - 1

\* lines 600-613: the tests of the handler, then the await on the message
\* that the batch starts on the contract; activeWallets is held across the
\* await
MintCommand ==
  LET activeWallets == getActiveWallets
      n == Len(activeWallets)
  IN  /\ n > 0
      /\ getActiveContractAddress # null
      /\ Cardinality(FreeChains) >= n
      /\ batch' = Append(batch, [chains |-> {FreeChain(i) : i \in 1..n},
                                 launched |-> FALSE, total |-> n,
                                 contract |-> getActiveContractAddress,
                                 report |-> NoReport])
      /\ walletAddress' =
           [c \in Chains |->
              IF \E i \in 1..n : c = FreeChain(i)
              THEN activeWallets[CHOOSE i \in 1..n : c = FreeChain(i)]
              ELSE walletAddress[c]]
      /\ UNCHANGED <<chainCount, pendingNonces, storeVars, pc, onChainNonce,
                     nonce, txRecord, error, issued, maxIssued, start,
                     calls, boots, queried, mint>>

\* line 616: activeWallets.map calls sendMonadMintTx for every wallet in
\* one turn, each call running up to its first await as Attempt does, and
\* Promise.all takes the promises
BatchLaunch(j) ==
  LET cs == batch[j].chains
      message(c) == PreCheck(walletAddress[c])
      m(c) == Started(mint[c], 0)
      after(c) == IF message(c) = NoMessage THEN "fetching"
                  ELSE AfterCatch(m(c), message(c))
  IN  /\ ~batch[j].launched
      /\ pc' = [c \in Chains |-> IF c \in cs THEN after(c) ELSE pc[c]]
      /\ error' = [c \in Chains |->
                     IF c \in cs THEN message(c) ELSE error[c]]
      /\ onChainNonce' =
           [c \in Chains |->
              IF c \in cs /\ message(c) = NoMessage
              THEN chainCount[walletAddress[c]] ELSE onChainNonce[c]]
      /\ mint' = [c \in Chains |->
                    IF c \notin cs THEN mint[c]
                    ELSE IF message(c) = NoMessage THEN m(c)
                    ELSE Caught(m(c), message(c), walletAddress[c])]
      /\ batch' = [batch EXCEPT
                     ![j].launched = TRUE,
                     ![j].report = IF \E c \in cs : after(c) = "failed"
                                   THEN SomeFailed ELSE NoReport]
      /\ UNCHANGED <<chainCount, pendingNonces, storeVars, walletAddress,
                     nonce, txRecord, issued, maxIssued, start, calls,
                     boots, queried>>

\* a fresh process that can run the chains cs
InitHandler(cs) ==
  /\ chainCount = [a \in Addresses |-> 0]
  /\ pendingNonces = <<>>
  /\ heap = <<>>
  /\ txHistory = <<>>
  /\ file = <<>>
  /\ diskFaulty = FALSE
  /\ maxHistoryItems = StoreCap
  /\ variant = "backoff"
  /\ mintMethodPresent = TRUE
  /\ faults = {SupplyReached}
  /\ broadcast = <<>>
  /\ timer = <<>>
  /\ pc = [c \in cs |-> "idle"]
  /\ walletAddress = [c \in cs |-> "0xa"]
  /\ onChainNonce = [c \in cs |-> 0]
  /\ nonce = [c \in cs |-> 0]
  /\ txRecord = [c \in cs |-> 0]
  /\ error = [c \in cs |-> NoMessage]
  /\ issued = [a \in Addresses |-> 0]
  /\ maxIssued = [a \in Addresses |-> -1]
  /\ start = [a \in Addresses |-> 0]
  /\ calls = 0
  /\ boots = 0
  /\ queried = <<>>
  /\ mint = [c \in cs |->
               [retryCount |-> 0, attempts |-> 0, remaining |-> 0,
                signed |-> <<>>, errors |-> <<>>, said |-> NoChat,
                to |-> null]]
  /\ activeContract = CONTRACT_ADDRESS
  /\ contracts = DefaultContracts
  /\ batch = <<>>
  /\ denied = <<>>

\* two wallets, both active or only the first
InitBatch ==
  /\ InitHandler(BatchChains)
  /\ wallets \in {[a \in Addresses |-> TRUE],
                  [a \in Addresses |-> a = "0xa"]}

NextBatch ==
  \/ MintCommand
  \/ \E j \in DOMAIN batch : BatchLaunch(j)
  \/ \E c \in Chains : RpcCountFail(c)
  \/ \E c \in Chains : GetNonceResume(c)
  \/ \E c \in Chains : MintSend(c)
  \/ \E c \in Chains : BroadcastResolves(c)
  \/ \E c \in Chains : BroadcastRejects(c)
  \/ \E c \in Chains : TimerFires(c)
  \/ \E c \in Chains : MintCatch(c)
  \/ \E c \in Chains : MintReturn(c)
  \/ \E c \in Chains : BackoffTick(c)
  \/ \E c \in Chains : MintRetry(c)
  \/ \E ref \in DOMAIN heap : LateResolve(ref)

\* The contract has the mint method here, so building the transaction
\* never throws.  Of the abandoned losers of the races only the late
\* receipt is taken: it moves the on-chain count that getNonce reads, while
\* LateReject and LateTimer write nothing that a chain or the handler reads.
SpecBatch == InitBatch /\ [][NextBatch]_vars

\* a step of a chain that has been started: a reply or a rejection of the
\* node, the transaction timeout, the retry timer, or the continuation of
\* sendMonadMintTx they wake
ChainStep(d) ==
  \/ RpcCountFail(d)
  \/ GetNonceResume(d)
  \/ MintEncodeFails(d)
  \/ MintSend(d)
  \/ BroadcastResolves(d)
  \/ BroadcastRejects(d)
  \/ TimerFires(d)
  \/ MintCatch(d)
  \/ MintReturn(d)
  \/ BackoffTick(d)
  \/ MintRetry(d)

\* Fairness: every call to the node and every timer resolves in the end,
\* and the event loop runs the continuation it wakes; the handler launches
\* the chains once its message is sent.  The commands of the admin and the
\* late receipts are under no obligation.  Both wallets are active.
SpecBatchFair ==
  /\ InitHandler(BatchChains)
  /\ wallets = [a \in Addresses |-> TRUE]
  /\ [][NextBatch]_vars
  /\ \A c \in BatchChains : WF_vars(ChainStep(c))
  /\ \A j \in 1..2 : WF_vars(j \in DOMAIN batch /\ BatchLaunch(j))

\* One /mint for one wallet while the admin adds contracts and switches
\* between them.
TargetChains == {1}

InitTarget ==
  /\ InitHandler(TargetChains)
  /\ wallets = [a \in Addresses |-> a = "0xa"]

NextTarget ==
  \/ MintCommand
  \/ \E j \in DOMAIN batch : BatchLaunch(j)
  \/ \E address \in Contracts : AddContract(address)
  \/ \E address \in Contracts : ActivateContract(address)
  \/ \E c \in Chains : RpcCountFail(c)
  \/ \E c \in Chains : GetNonceResume(c)
  \/ \E c \in Chains : MintSend(c)
  \/ \E c \in Chains : BroadcastResolves(c)
  \/ \E c \in Chains : BroadcastRejects(c)
  \/ \E c \in Chains : TimerFires(c)
  \/ \E c \in Chains : MintCatch(c)
  \/ \E c \in Chains : MintReturn(c)
  \/ \E c \in Chains : BackoffTick(c)
  \/ \E c \in Chains : MintRetry(c)

SpecTarget == InitTarget /\ [][NextTarget]_vars

\* The handler with a node that answers every request, and before the
\* timeout: no chain retries, so that the commands of a behaviour can
\* start three chains, and the admin toggles wallets between commands.
PromptChains == {1, 2, 3}

InitPrompt ==
  /\ InitHandler(PromptChains)
  /\ wallets = [a \in Addresses |-> TRUE]

NextPrompt ==
  \/ MintCommand
  \/ \E j \in DOMAIN batch : BatchLaunch(j)
  \/ \E a \in Addresses : ToggleWallet(a)
  \/ \E c \in Chains : GetNonceResume(c)
  \/ \E c \in Chains : MintSend(c)
  \/ \E c \in Chains : BroadcastResolves(c)
  \/ \E c \in Chains : BroadcastRejects(c)
  \/ \E c \in Chains : MintCatch(c)
  \/ \E c \in Chains : MintReturn(c)

SpecPrompt == InitPrompt /\ [][NextPrompt]_vars

\* ---------------------------------------------------- the chat commands
\* config.js line 14: CONFIG.ADMIN_ID, and the id of another user
ADMIN_ID == "6668515216"
Senders == {ADMIN_ID, "777"}

\* the commands with a handler: part_000 lines 566-1014; the first variant
\* (lines 99-355) and 2ndindex.js (lines 161-450) have no /contaddforce,
\* /inspectcontract and /setmethods
Commands ==
  {"/start", "/mint", "/status", "/contracts", "/contadd", "/contaddforce",
   "/inspectcontract", "/setmethods", "/contuse", "/contrem", "/addwallet",
   "/wallets", "/togglewallet", "/removewallet", "/history",
   "/wallethistory"}

CommandsOf(v) ==
  IF v = "backoff" THEN Commands
  ELSE Commands \ {"/contaddforce", "/inspectcontract", "/setmethods"}

\* checkAdminAccess(msg), called on part_000 lines 667, 707, 754 and 793:
\* no file of src defines it; it is taken to compare the sender with
\* CONFIG.ADMIN_ID as the tests written out in the other handlers do
checkAdminAccess(from) == from = ADMIN_ID

\* faulty variant of Admitted: the handler of /togglewallet has no test
AdmittedToggle(from, text) ==
  text = "/togglewallet" \/ from = ADMIN_ID

\* the first statement of every handler: msg.from.id !== CONFIG.ADMIN_ID,
\* or checkAdminAccess(msg) in four handlers of the backoff variant
Admitted(from, text) ==
  IF variant = "backoff"
     /\ text \in {"/contaddforce", "/inspectcontract", "/setmethods",
                  "/contadd"}
  THEN checkAdminAccess(from)
  ELSE from = ADMIN_ID

\* the addresses the commands of a behaviour name
CommandContracts == {CONTRACT_ADDRESS, "0xc2"}
CommandWallets == {"0xb"}

\* every variable but denied
stateVars == <<chainCount, pendingNonces, heap, txHistory, file, diskFaulty,
               maxHistoryItems, variant, mintMethodPresent, faults,
               adminVars, broadcast, timer, chainVars, histVars>>

\* /addwallet and /removewallet, wallet.js lines 56-84 and 114-126: the map
\* wallets says for an address whether find(w => ... && w.active) finds a
\* wallet, so a removed wallet is as an inactive one, and a wallet is
\* added where none is found
AddWallet(address) ==
  /\ ~wallets[address]
  /\ ToggleWallet(address)

RemoveWallet(address) ==
  /\ wallets[address]
  /\ ToggleWallet(address)

\* /setmethods, part_000 lines 753-790: any text is taken for the name of
\* the mint method, one the contract has or one it has not
SetMethods ==
  /\ getActiveContractAddress # null
  /\ mintMethodPresent' \in BOOLEAN
  /\ UNCHANGED <<chainCount, pendingNonces, heap, txHistory, file,
                 diskFaulty, maxHistoryItems, variant, faults, adminVars,
                 denied, broadcast, timer, chainVars, histVars>>

\* what the handler of the command does past its test; the commands that
\* report (/start, /status, /contracts, /inspectcontract, /wallets,
\* /history, /wallethistory) send messages only
Effect(text) ==
  CASE text = "/mint" -> MintCommand
    [] text \in {"/contadd", "/contaddforce"} ->
         \E address \in CommandContracts : AddContract(address)
    [] text = "/contuse" ->
         \E address \in CommandContracts : ActivateContract(address)
    [] text = "/contrem" ->
         \E address \in CommandContracts : RemoveContract(address)
    [] text = "/setmethods" -> SetMethods
    [] text = "/addwallet" ->
         \E address \in CommandWallets : AddWallet(address)
    [] text = "/togglewallet" ->
         \E address \in CommandWallets : ToggleWallet(address)
    [] text = "/removewallet" ->
         \E address \in CommandWallets : RemoveWallet(address)
    [] OTHER -> UNCHANGED vars

\* the handler of a command runs for a message of the sender
Handler(from, text) ==
  /\ text \in CommandsOf(variant)
  /\ IF Admitted(from, text) THEN Effect(text)
     ELSE /\ denied' = <<from, text>>
          /\ UNCHANGED stateVars

\* Commands of the admin and of another user, and one mint chain up to
\* its broadcast, with a node that answers every request.
InitCommands == InitMint /\ mintMethodPresent = TRUE

NextCommands ==
  \/ \E from \in Senders, text \in Commands : Handler(from, text)
  \/ \E j \in DOMAIN batch : BatchLaunch(j)
  \/ \E c \in Chains : GetNonceResume(c)
  \/ \E c \in Chains : MintEncodeFails(c)
  \/ \E c \in Chains : MintSend(c)

SpecCommands == InitCommands /\ [][NextCommands]_vars

\* ------------------------------------------- the contract list alone
\* The admin's /contadd, /contuse and /contrem on a contract manager that
\* starts with no saved contract; no mint runs.
FreshContracts ==
  /\ chainCount = [a \in Addresses |-> 0]
  /\ pendingNonces = <<>>
  /\ heap = <<>>
  /\ txHistory = <<>>
  /\ file = <<>>
  /\ maxHistoryItems = StoreCap
  /\ variant = "backoff"
  /\ mintMethodPresent = TRUE
  /\ faults = BroadcastErrors
  /\ broadcast = <<>>
  /\ timer = <<>>
  /\ pc = <<>>
  /\ walletAddress = <<>>
  /\ onChainNonce = <<>>
  /\ nonce = <<>>
  /\ txRecord = <<>>
  /\ error = <<>>
  /\ issued = [a \in Addresses |-> 0]
  /\ maxIssued = [a \in Addresses |-> -1]
  /\ start = [a \in Addresses |-> 0]
  /\ calls = 0
  /\ boots = 0
  /\ queried = <<>>
  /\ mint = <<>>
  /\ wallets = [a \in Addresses |-> TRUE]
  /\ activeContract = null
  /\ contracts = <<>>
  /\ batch = <<>>
  /\ denied = <<>>

InitContracts == FreshContracts /\ diskFaulty = FALSE

\* writes to saved_contracts.json may fail
InitContractsDisk == FreshContracts /\ diskFaulty = TRUE

NextContracts ==
  \/ \E address \in Contracts : AddContract(address)
  \/ \E address \in Contracts : ActivateContract(address)
  \/ \E address \in Contracts : RemoveContract(address)

SpecContracts == InitContracts /\ [][NextContracts]_vars
SpecContractsDisk == InitContractsDisk /\ [][NextContracts]_vars

\* ================================================================ claims
\* the step in which getNonce of chain c returns
Returns(c) == pc[c] = "fetching" /\ pc'[c] = "gotNonce"

\* the callers whose getNonce(a) has returned
Returned(a) == {c \in Chains : pc[c] = "gotNonce" /\ walletAddress[c] = a}

\* the last nonce issued for a, when pn holds a reservation for a
LastIssued(pn, a) == pn[a] - 1

\* pn and its successor agree on every address but a
OthersUntouched(pn, pnNext, a) ==
  \A b \in Addresses \ {a} :
    /\ b \in DOMAIN pnNext <=> b \in DOMAIN pn
    /\ b \in DOMAIN pn => pnNext[b] = pn[b]

\* C1: N concurrent getNonce(A) calls return pairwise distinct nonces that
\* form a contiguous ascending run starting at
\* max(onChainCount(A), priorLastIssued + 1): the nonces held by the callers
\* that have returned are exactly start .. start + k - 1, and the k-th call
\* to return gets start + k - 1.
C1_ContiguousRun ==
  /\ [](\A a \in Addresses :
          {nonce[c] : c \in Returned(a)}
            = start[a] .. (start[a] + Cardinality(Returned(a)) - 1))
  /\ [][\A c \in Chains :
          Returns(c) =>
            nonce'[c] = start[walletAddress[c]] + issued[walletAddress[c]]]_vars

C1_Witness ==
  \E a \in Addresses :
    /\ Cardinality(Returned(a)) = NumCallers
    /\ start[a] > chainCount[a]

\* C2: once getNonce(A) has issued nonce n, no later getNonce(A) returns a
\* value <= n, whatever sendTransaction outcomes lie in between.
C2_NeverReuse ==
  [][\A c \in Chains :
       Returns(c) => nonce'[c] > maxIssued[walletAddress[c]]]_vars

\* C3: a getNonce(A) call that fetched count k returns max(k, lastIssued+1),
\* or k when nothing was issued for A; afterwards lastIssued(A) is the
\* returned value and the reservations of the other addresses are unchanged.
C3_SingleAllocation ==
  [][\A c \in Chains :
       Returns(c) =>
         LET a == walletAddress[c]
             k == onChainNonce[c]
         IN  /\ nonce'[c] = IF a \in DOMAIN pendingNonces
                            THEN Max(k, LastIssued(pendingNonces, a) + 1)
                            ELSE k
             /\ a \in DOMAIN pendingNonces'
             /\ LastIssued(pendingNonces', a) = nonce'[c]
             /\ OthersUntouched(pendingNonces, pendingNonces', a)]_vars

C3_Witness ==
  \E c \in Chains :
    /\ pc[c] = "gotNonce"
    /\ nonce[c] > chainCount[walletAddress[c]]
    /\ LastIssued(pendingNonces, walletAddress[c]) = nonce[c]
    /\ DOMAIN pendingNonces = Addresses

\* the error classes the claim names as nonce desynchronization
IsNonceDesync(message) == message \in {NonceTooLow, NonceUsed, Underpriced}

\* C4: when sendTransaction for A throws a nonce-desynchronization error,
\* the reservation of A is gone by the time the caller sees the error, so
\* the next getNonce(A) returns the count it fetches; the reservations of
\* the other addresses are unchanged.
C4_InvalidateOnDesync ==
  [][\A c \in Chains :
       (pc[c] = "racing" /\ pc'[c] = "threw" /\ IsNonceDesync(error'[c])) =>
         LET a == walletAddress[c]
         IN  /\ a \notin DOMAIN pendingNonces'
             /\ \A k \in 0..(MaxChain + 1) :
                  NonceFor(pendingNonces', a, k) = k
             /\ OthersUntouched(pendingNonces, pendingNonces', a)]_vars

C4_Witness ==
  \E c \in Chains :
    /\ pc[c] = "threw"
    /\ error[c] = Underpriced
    /\ walletAddress[c] \notin DOMAIN pendingNonces
    /\ DOMAIN pendingNonces # {}

\* C5: when the on-chain count cannot be fetched, getNonce throws to its
\* caller, issues no nonce and leaves pendingNonces as it was.
C5_FetchFailure ==
  [][\A c \in Chains :
       (pc[c] = "fetching" /\ pc'[c] = "nonceFailed") =>
         /\ error'[c] \in FetchErrors
         /\ pendingNonces' = pendingNonces
         /\ issued' = issued
         /\ nonce'[c] = nonce[c]]_vars

C5_Witness ==
  \E c \in Chains :
    /\ pc[c] = "nonceFailed"
    /\ walletAddress[c] \in DOMAIN pendingNonces

\* C6: when sendTransaction has returned or thrown, the record of its hash
\* is in the History Store in a terminal state: Confirmed iff it returned,
\* Failed iff it threw; never Pending, never absent.
C6_OneTerminalRecord ==
  \A c \in Chains :
    /\ pc[c] = "returned" =>
         \E i \in DOMAIN txHistory :
           /\ txHistory[i] = txRecord[c]
           /\ heap[txHistory[i]].status = "confirmed"
    /\ pc[c] = "threw" =>
         \E i \in DOMAIN txHistory :
           /\ txHistory[i] = txRecord[c]
           /\ heap[txHistory[i]].status = "failed"

\* C7: a record's status only moves pending -> confirmed or pending ->
\* failed, and a terminal status never changes, also not when the abandoned
\* loser of the race completes.
C7_TerminalIsFinal ==
  [][\A ref \in DOMAIN heap :
       /\ heap'[ref].status \in {"pending", "confirmed", "failed"}
       /\ heap[ref].status # "pending" =>
            heap'[ref].status = heap[ref].status]_vars

C7_Witness ==
  /\ \E ref \in DOMAIN heap :
       /\ heap[ref].status = "failed"
       /\ heap[ref].error = TimeoutMessage
       /\ broadcast[ref] = "settled"
       /\ chainCount[heap[ref].from] > heap[ref].hash[2]
  /\ \E ref \in DOMAIN heap :
       heap[ref].status = "confirmed" /\ timer[ref] = "fired"

\* C8: the Pending record is appended and persisted before the broadcast is
\* initiated: no broadcast is in flight for a hash without a persisted
\* record.
C8_PersistedBeforeBroadcast ==
  \A ref \in DOMAIN heap :
    broadcast[ref] = "inflight" =>
      \E i \in DOMAIN file : file[i].hash = heap[ref].hash

\* C9: when the timer fires before the broadcast is acknowledged,
\* sendTransaction throws the timeout error and its record is Failed with
\* that text; no call is still waiting once its timer has fired.
C9_TimeoutWins ==
  /\ [](\A c \in Chains :
          pc[c] = "racing" => timer[txRecord[c]] = "armed")
  /\ [][\A c \in Chains :
          (pc[c] = "racing" /\ timer'[txRecord[c]] = "fired") =>
            /\ pc'[c] = "threw"
            /\ error'[c] = TimeoutMessage
            /\ heap'[txRecord[c]].status = "failed"
            /\ heap'[txRecord[c]].error = TimeoutMessage]_vars

C9_Witness ==
  \E c \in Chains :
    /\ pc[c] = "threw"
    /\ error[c] = TimeoutMessage
    /\ broadcast[txRecord[c]] = "inflight"

\* C10: a record carries blockNumber/gasUsed only if it is Confirmed and an
\* error message only if it is Failed, in memory and in the file.
ConsistentRecord(rec) ==
  /\ rec.blockNumber => rec.status = "confirmed"
  /\ rec.error # NoMessage => rec.status = "failed"

C10_FieldsMatchStatus ==
  /\ \A ref \in DOMAIN heap : ConsistentRecord(heap[ref])
  /\ \A i \in DOMAIN file : ConsistentRecord(file[i])

C10_Witness ==
  /\ \E i \in DOMAIN txHistory :
       /\ heap[txHistory[i]].status = "confirmed"
       /\ heap[txHistory[i]].blockNumber
  /\ \E ref \in DOMAIN heap :
       heap[ref].status = "failed" /\ heap[ref].error # NoMessage

\* C11: in the step in which sendTransaction returns or throws, the history
\* file ends up holding exactly the in-memory history, the terminal status
\* of the record just mutated included.
C11_NoUnflushedState ==
  [][\A c \in Chains :
       (pc[c] = "racing" /\ pc'[c] \in {"returned", "threw"}) =>
         /\ file' = Snapshot(heap', txHistory')
         /\ heap'[txRecord[c]].status \in {"confirmed", "failed"}]_vars

\* C12: the History Store never holds more than the cap, in memory or in
\* the file; an append to a store holding exactly the cap evicts exactly
\* the oldest record and leaves exactly the cap, and after any append the
\* new record is first and the records kept follow in their former order.
C12_CapEvictsOldest ==
  /\ [](Len(txHistory) <= maxHistoryItems /\ Len(file) <= maxHistoryItems)
  /\ [][\A c \in Chains :
          (pc[c] = "gotNonce" /\ pc'[c] = "racing") =>
            LET new == txRecord'[c]
                n   == Len(txHistory)
            IN  /\ \A i \in DOMAIN txHistory : txHistory[i] # new
                /\ txHistory' =
                     IF n = maxHistoryItems
                     THEN <<new>> \o SubSeq(txHistory, 1, n - 1)
                     ELSE <<new>> \o txHistory
                /\ n = maxHistoryItems => Len(txHistory') = maxHistoryItems]_vars

C12_Witness ==
  /\ boots = 0
  /\ maxHistoryItems > 1
  /\ Len(heap) = maxHistoryItems + 1
  /\ Len(txHistory) = maxHistoryItems
  /\ Len(file) = maxHistoryItems
  /\ \E c \in Chains : pc[c] = "racing" /\ txRecord[c] = txHistory[1]

\* the same address, compared without regard to case
SameAddress(x, y) ==
  \/ x = y
  \/ {x, y} = {"0xa", "0xA"}
  \/ {x, y} = {"0xb", "0xB"}

\* the position of record ref in this.txHistory
Position(ref) == CHOOSE i \in DOMAIN txHistory : txHistory[i] = ref

\* the records the query asks for: all of them, or those sent from address
Asked(address) ==
  {ref \in {txHistory[i] : i \in DOMAIN txHistory} :
     address = null \/ SameAddress(heap[ref].from, address)}

\* C13: getTransactionHistory(address, limit) returns at most limit records
\* of the store, most recent first; they are records asked for (those of
\* the sender, compared case-insensitively, when an address is given),
\* none of them is older than a record asked for and left out, and records
\* are left out only when limit is reached.
C13_QueryResult ==
  queried # <<>> =>
    LET q == queried[1]
        r == q.result
    IN  /\ Len(r) <= q.limit
        /\ \A i \in DOMAIN r : r[i] \in Asked(q.address)
        /\ \A i, j \in DOMAIN r : i < j => Position(r[i]) < Position(r[j])
        /\ \A ref \in Asked(q.address) :
             (\A i \in DOMAIN r : r[i] # ref) =>
               /\ Len(r) = q.limit
               /\ \A i \in DOMAIN r : Position(r[i]) < Position(ref)

C13_Witness ==
  /\ queried # <<>>
  /\ queried[1].address = "0xa"
  /\ queried[1].limit = 1
  /\ Len(queried[1].result) = 1
  /\ heap[queried[1].result[1]].from = "0xA"
  /\ Cardinality(Asked("0xa")) = 2
  /\ heap[txHistory[1]].from = "0xb"

\* C14: a getTransactionHistory call leaves the History Store and its file
\* as they were, and a call repeated with the same arguments, nothing
\* written in between, returns the sequence the call before it returned.
C14_QueryIsReadOnly ==
  [][queried' # queried =>
       /\ UNCHANGED <<heap, txHistory, file>>
       /\ queried'[1].again => queried'[1].result = queried[1].result]_vars

C14_Witness ==
  /\ queried # <<>>
  /\ queried[1].again
  /\ queried[1].address # null
  /\ Len(queried[1].result) >= 2

\* the step in which the process is started again
Restarts == boots' = boots + 1

\* C15: a restart loads exactly the records the file held when the process
\* died and leaves the file alone, so a record persisted as pending is
\* observed as pending; no record that was loaded from the file changes
\* afterwards, in memory or (the file always agreeing with memory) on disk.
C15_StuckPending ==
  /\ [][Restarts => /\ Snapshot(heap', txHistory') = file
                    /\ file' = file]_vars
  /\ [][\A ref \in DOMAIN heap :
          broadcast[ref] = "none" => heap'[ref] = heap[ref]]_vars
  /\ [](file = Snapshot(heap, txHistory))

C15_Witness ==
  /\ boots = 1
  /\ \E i \in DOMAIN txHistory :
       LET rec == heap[txHistory[i]]
       IN  /\ broadcast[txHistory[i]] = "none"
           /\ rec.status = "pending"
           /\ chainCount[rec.from] > rec.hash[2]
  /\ \E c \in Chains : pc[c] = "returned"

\* C16: a restart leaves no reservation for any address, and a getNonce(A)
\* that finds no reservation for A, as the first one after a restart does,
\* returns exactly the count it fetched, whatever was issued before.
C16_ReservationsNotPersisted ==
  /\ [][Restarts => pendingNonces' = <<>>]_vars
  /\ [][\A c \in Chains :
          (Returns(c) /\ walletAddress[c] \notin DOMAIN pendingNonces) =>
            nonce'[c] = onChainNonce[c]]_vars

C16_Witness ==
  /\ boots = 1
  /\ \E c \in Chains :
       LET a == walletAddress[c]
       IN  /\ pc[c] = "gotNonce"
           /\ issued[a] = 2
           /\ chainCount[a] = start[a]
           /\ nonce[c] = chainCount[a]
           /\ nonce[c] = maxIssued[a]

\* the attempts a chain may make: the first activation and the retries
maxAttempts == MAX_RETRY_COUNT + 1

\* the errors the specification classes as fatal: the supply cap reached,
\* the mint method absent (thrown by the test of the method or, where
\* there is none, by the call of the absent method)
IsFatalError(message) ==
  message \in {SupplyReached, MethodMissing, NotAFunction}

\* C17: a chain never makes more than maxAttempts attempts, and a chain
\* that has failed after retryable errors only has made exactly
\* maxAttempts attempts, each ended by an error, and surfaces the error of
\* the last one.
C17_ExactlyMaxAttempts ==
  \A c \in Chains :
    /\ mint[c].attempts <= maxAttempts
    /\ (/\ pc[c] = "failed"
        /\ \A i \in DOMAIN mint[c].errors : ~IsFatalError(mint[c].errors[i]))
       => /\ mint[c].attempts = maxAttempts
          /\ Len(mint[c].errors) = maxAttempts
          /\ error[c] = mint[c].errors[maxAttempts]

C17_Witness ==
  \E c \in Chains :
    /\ pc[c] = "failed"
    /\ mint[c].attempts = 3
    /\ mint[c].errors = <<TimeoutMessage, TimeoutMessage, TimeoutMessage>>
    /\ error[c] = TimeoutMessage

\* C18: the wait that follows a retryable error on attempt k is
\* baseDelay * 2^k, and the next attempt starts only when it has run out.
C18_BackoffDoubles ==
  [][\A c \in Chains :
       /\ (pc[c] # "backoff" /\ pc'[c] = "backoff") =>
            mint'[c].remaining = baseDelay * 2^(mint'[c].retryCount)
       /\ (pc[c] = "backoff" /\ pc'[c] # "backoff") =>
            mint[c].remaining = 0]_vars

\* C19: a fatal error ends the chain at once: the activation that caught
\* it goes to its end with that error, without a wait, and a chain that
\* has ended stays ended.
C19_FatalEndsChain ==
  [][\A c \in Chains :
       /\ (pc[c] \in {"threw", "nonceFailed"} /\ IsFatalError(error[c])
             /\ pc'[c] # pc[c]) =>
            pc'[c] = "failed" /\ error'[c] = error[c]
       /\ (error'[c] # error[c] /\ error'[c] \in {MethodMissing, NotAFunction})
            => pc'[c] = "failed"
       /\ pc[c] = "failed" => (pc'[c] = "failed" /\ error'[c] = error[c])]_vars

\* C20: the nonce signed into an attempt is not a nonce that was signed
\* into an earlier attempt of the same chain.
C20_FreshNoncePerAttempt ==
  [][\A c \in Chains :
       (pc[c] = "gotNonce" /\ pc'[c] = "racing") =>
         \A i \in DOMAIN mint[c].signed : mint[c].signed[i] # nonce[c]]_vars

\* ------------------------------------------------------------------ C21
\* the errors of the tests of the input: lines 453-461 (39-47)
IsInvalidInput(message) == message \in {WalletInactive, NoContract}

\* C21: an attempt rejected for invalid input (wallet unknown or inactive,
\* no active contract) fetches no nonce, creates no record and broadcasts
\* nothing, and it ends the chain: no wait is started and no further
\* attempt follows.
C21_InvalidInputEndsChain ==
  [][\A c \in Chains :
       (mint'[c].attempts = mint[c].attempts + 1
        /\ IsInvalidInput(error'[c]))
       => /\ issued' = issued
          /\ heap' = heap
          /\ broadcast' = broadcast
          /\ pc'[c] = "failed"
          /\ mint'[c].remaining = 0]_vars

\* ------------------------------------------------------------------ C22
Terminal(c) == pc[c] \in {"done", "failed"}
Launched(c) == \E j \in BatchOf(batch, c) : batch[j].launched

\* what belongs to chain d: its activation, its wallet's nonces and on-chain
\* count, the record of its attempt
Own(d) ==
  <<pc[d], mint[d], error[d], nonce[d], txRecord[d],
    chainCount[walletAddress[d]],
    IF walletAddress[d] \in DOMAIN pendingNonces
    THEN pendingNonces[walletAddress[d]] ELSE 0,
    IF txRecord[d] # 0 THEN heap[txRecord[d]] ELSE NewRecord("", 0)>>

\* C22: chains of different wallets are independent.  While chain d has
\* not ended, it has a step to take whatever state a chain c of another
\* wallet is in (ended in a fatal error, out of retries, waiting), and a
\* step of c, its end included, changes nothing that belongs to d.
C22_SiblingsIndependent ==
  [][\A c, d \in Chains :
       (/\ walletAddress[c] # walletAddress[d]
        /\ Launched(c) /\ Launched(d)
        /\ ~Terminal(d))
       => /\ ENABLED ChainStep(d)
          /\ (pc'[c] # pc[c] \/ mint'[c] # mint[c]) => Own(d)' = Own(d)]_vars

\* a chain has ended in a fatal error at once, and the chain of the other
\* wallet has ended in success with a later attempt
C22_Witness ==
  \E c, d \in Chains :
    /\ walletAddress[c] # walletAddress[d]
    /\ pc[c] = "failed" /\ mint[c].errors = <<SupplyReached>>
    /\ pc[d] = "done" /\ mint[d].attempts = 2
    /\ txRecord[c] < txRecord[d]

\* ------------------------------------------------------------------ C23
\* C23: the handler reports on a batch only when every chain the batch
\* launched has ended, in success or in failure: no report of a batch is
\* out while one of its chains still attempts or waits to retry.
C23_ReportAfterAllTerminal ==
  \A j \in DOMAIN batch :
    batch[j].report # NoReport => \A c \in batch[j].chains : Terminal(c)

\* ------------------------------------------------------------------ C24
\* C24: once every chain of a batch has ended, the report of the batch
\* gives successCount, the number of its chains that ended in success, and
\* total, the number of wallets the batch attempted, for every mix of
\* outcomes.
C24_CountsReported ==
  \A j \in DOMAIN batch :
    (batch[j].launched /\ \A c \in batch[j].chains : Terminal(c))
    => batch[j].report.counts =
         <<Cardinality({c \in batch[j].chains : pc[c] = "done"}),
           Cardinality(batch[j].chains)>>

\* ------------------------------------------------------------------ C25
\* every chain of batch j has ended; the number that ended in success
Finished(j) ==
  batch[j].launched /\ \A c \in batch[j].chains : Terminal(c)
Successes(j) == Cardinality({c \in batch[j].chains : pc[c] = "done"})

\* C25: the handler itself never fails when some chains of a batch fail,
\* and what it reports for a batch in which some chain succeeded differs
\* from what it reports for a batch in which no chain succeeded.
C25_PartialSuccessTold ==
  \A j, k \in DOMAIN batch :
    (Finished(j) /\ Finished(k) /\ Successes(j) > 0 /\ Successes(k) = 0)
    => batch[j].report # batch[k].report

\* ------------------------------------------------------------------ C26
\* the records sendTransaction has created for the wallet of chain c
RecordsOf(c) == {ref \in DOMAIN heap : heap[ref].from = walletAddress[c]}

\* C26: every attempt of a chain creates exactly one record, in whatever
\* step the attempt fails: when the chain has ended, the number of records
\* it added equals the number of attempts it made.
C26_OneRecordPerAttempt ==
  \A c \in Chains :
    Terminal(c) => Cardinality(RecordsOf(c)) = mint[c].attempts

\* ------------------------------------------------------------------ C27
\* C27: if every call to the node and every timer resolves in the end,
\* every chain a batch has started ends, in success or with the error
\* handed to the handler, and it has made at most maxAttempts attempts.
C27_EveryChainEnds ==
  \A c \in BatchChains :
    (BatchOf(batch, c) # {})
      ~> (Terminal(c) /\ mint[c].attempts \in 1..maxAttempts)

\* a chain has ended in success with its last attempt, another in failure
C27_Witness ==
  \E c, d \in Chains :
    /\ pc[c] = "done" /\ mint[c].attempts = maxAttempts
    /\ pc[d] = "failed"

\* ------------------------------------------------------------------ C28
\* the records of a sender that are Pending
PendingOf(address) ==
  {ref \in DOMAIN heap :
     heap[ref].from = address /\ heap[ref].status = "pending"}

\* C28: at any time at most one record of a sending address is Pending,
\* and no two chains that are under way submit from the same address,
\* whatever commands and retries interleave.
C28_OneSubmissionPerWallet ==
  /\ \A a \in Addresses : Cardinality(PendingOf(a)) <= 1
  /\ \A c, d \in Chains :
       (c # d /\ Launched(c) /\ Launched(d)
        /\ ~Terminal(c) /\ ~Terminal(d))
       => walletAddress[c] # walletAddress[d]

\* ------------------------------------------------------------------ C29
\* the longest error text a message to the chat may carry
MaxErrorChars == 100

\* C29: when a chain has ended in failure, after its retries or at a fatal
\* error, the message the chat was sent about it carries at most 100
\* characters of the text of the error.
C29_FailureTextTruncated ==
  \A c \in Chains :
    pc[c] = "failed"
    => /\ mint[c].said.kind # "none"
       /\ mint[c].said.error.chars <= MaxErrorChars

\* ------------------------------------------------------------------ C30
\* C30: when a chain ends in failure with an attempt for which
\* sendTransaction had computed the transaction hash, the failure message
\* sent to the chat contains that hash.
C30_FailureNamesHash ==
  [][\A c \in Chains :
       (pc[c] = "threw" /\ pc'[c] = "failed")
       => mint'[c].said.hash = heap[txRecord[c]].hash]_vars

\* ------------------------------------------------------------------ C31
\* the records of the wallet of chain c that are Confirmed
ConfirmedOf(c) == {ref \in RecordsOf(c) : heap[ref].status = "confirmed"}

\* C31: once an attempt of a chain is Confirmed the chain makes no further
\* attempt, whatever happens in the steps after the receipt: the step that
\* follows the receipt ends the chain, and the chain leaves at most one
\* Confirmed record.
C31_NoAttemptAfterConfirmed ==
  [][\A c \in Chains :
       /\ (pc[c] = "returned" /\ pc'[c] # "returned") => pc'[c] = "done"
       /\ Cardinality(ConfirmedOf(c))' <= 1]_vars

\* ------------------------------------------------------------------ C32
\* the step in which chain c hands its signed transaction over
Sends(c) == pc[c] = "gotNonce" /\ pc'[c] = "racing"

\* C32: the nonce signed into a transaction is the value getNonce returned
\* for that attempt, in every variant: the tx object holds that value, and
\* the transaction handed to sendTransaction is the one with that nonce.
C32_SignedNonceIsAllocated ==
  [][\A c \in Chains :
       Sends(c) => /\ txNonce(c) = nonce[c]
                   /\ heap'[txRecord'[c]].hash
                        = sha3(walletAddress[c], nonce[c])]_vars

\* ------------------------------------------------------------------ C33
\* a sendTransaction call that has not yet returned works on record ref
InFlight(ref) == \E c \in Chains : pc[c] = "racing" /\ txRecord[c] = ref

\* a sendTransaction call that has not yet returned has computed this hash
InFlightHash(hash) ==
  \E c \in Chains : pc[c] = "racing" /\ heap[txRecord[c]].hash = hash

\* C33: in a process that has not crashed, every Pending record of the
\* History Store, in memory and in tx_history.json, belongs to a
\* sendTransaction call that has not yet returned, also when the cap has
\* evicted records of calls still in flight.
C33_PendingIsInFlight ==
  /\ \A i \in DOMAIN txHistory :
       heap[txHistory[i]].status = "pending" => InFlight(txHistory[i])
  /\ \A i \in DOMAIN file :
       file[i].status = "pending" => InFlightHash(file[i].hash)

\* ------------------------------------------------------------------ C34
\* C34: the History Store is keyed by hash: no two retained records, in
\* memory or in tx_history.json, have the same transaction hash, also after
\* an invalidated cache entry has let a retry sign with a nonce already
\* used.
C34_KeyedByHash ==
  /\ \A i, j \in DOMAIN txHistory :
       heap[txHistory[i]].hash = heap[txHistory[j]].hash => i = j
  /\ \A i, j \in DOMAIN file : file[i].hash = file[j].hash => i = j

\* ------------------------------------------------------------------ C35
\* C35: every transaction a batch hands to the node, retries included, is
\* addressed to the contract that was active and announced when the batch
\* started, whatever /contuse and /contrem commands run meanwhile.
C35_TargetIsAnnounced ==
  [][\A c \in Chains :
       Sends(c) => \A j \in BatchOf(batch, c) :
                     mint[c].to = batch[j].contract]_vars

\* ------------------------------------------------------------------ C36
\* C36: no transaction is handed to the node from a wallet that is
\* inactive or removed at that moment, also when /togglewallet or
\* /removewallet runs between the chain's test of the wallet and its
\* broadcast, or while the chain waits to retry.
C36_SenderIsActive ==
  [][\A c \in Chains : Sends(c) => wallets[walletAddress[c]]]_vars

\* ------------------------------------------------------------------ C37
\* the saved contracts flagged active
Flagged == {i \in DOMAIN contracts : contracts[i].active}

\* C37: after any sequence of addContract, activateContract and
\* removeContract from an empty list, at most one saved contract is flagged
\* active, and the active contract instance is non-null exactly when some
\* contract is flagged, and is then the instance of that contract's address.
C37_OneActiveContract ==
  /\ Cardinality(Flagged) <= 1
  /\ (activeContract # null) <=> (Flagged # {})
  /\ \A i \in Flagged : activeContract = contracts[i].address

====
